---- MODULE Spec2Model ----
(***************************************************************************)
(* Model of the evaluation notebooks of the vocal-cue interpreter:         *)
(*   - the hand-written grid search of Hyperparametertuning.ipynb          *)
(*     (range, twolayergridsearch, threelayergridsearch and their AdamW    *)
(*     variants, and the cells that call them);                            *)
(*   - the hold-one-session-out validation loop of the logistic            *)
(*     regression notebook.                                                *)
(*                                                                         *)
(* Numbers.  A hyperparameter value is a float.  The model keeps the       *)
(* floats the code can produce from bounds that are zero or a power of     *)
(* ten with a rational exponent: <<"pos", n, d>> is 10^(n/d) (d > 0, n/d   *)
(* in lowest terms), <<"zero", 0, 1>> is 0.0, <<"inf", 0, 1>> is +inf and  *)
(* <<"nan", 0, 1>> is NaN.  The logarithms np.log10 returns are            *)
(* <<"fin", n, d>> (n/d), <<"ninf", 0, 1>>, <<"pinf", 0, 1>> and           *)
(* <<"nan", 0, 1>>.  Arithmetic is exact: rounding of the last bit is not  *)
(* modelled.                                                               *)
(***************************************************************************)
EXTENDS Integers, Sequences, FiniteSets, TLC

\* ------------------------------------------------------------- bounds
\* Exponents of the bounds handed to range: 10^-MaxExp .. 10^0.
MaxExp == 2
\* Largest number of points asked of range for one dimension.
MaxCount == 3
\* Largest epoch budget of the cross-validation routine.
MaxEpochs == 5
\* Training outcomes are indexed by a seed in 0..MaxSeed.
MaxSeed == 1
\* Number of samples of the dataset handed to the grid search.
NumSamples == 4
\* Largest number of test rows a session has in the directory table.
MaxTestRows == 1
\* Largest number of rows of the table the export notebook reads.
MaxFiles == 3

\* ------------------------------------------------------------ numbers
Abs(x) == IF x < 0 THEN -x ELSE x

RECURSIVE GCD(_, _)
GCD(a, b) == IF b = 0 THEN a ELSE GCD(b, a % b)

\* n/d in lowest terms, d > 0.
Norm(n, d) ==
    LET g == GCD(Abs(n), d)
    IN  IF n = 0 THEN <<0, 1>> ELSE <<n \div g, d \div g>>

Fin(n, d) == LET q == Norm(n, d) IN <<"fin", q[1], q[2]>>
NInf == <<"ninf", 0, 1>>
PInf == <<"pinf", 0, 1>>
LNaN == <<"nan", 0, 1>>

Pos(n, d) == LET q == Norm(n, d) IN <<"pos", q[1], q[2]>>
Zero == <<"zero", 0, 1>>
Inf == <<"inf", 0, 1>>
NaN == <<"nan", 0, 1>>

\* np.log10 of a float (warnings are filtered out: log10(0) is -inf, no error).
Log10(v) ==
    CASE v[1] = "pos"  -> <<"fin", v[2], v[3]>>
      [] v[1] = "zero" -> NInf
      [] v[1] = "inf"  -> PInf
      [] OTHER         -> LNaN

\* 10 ** x.
Pow10(x) ==
    CASE x[1] = "fin"  -> <<"pos", x[2], x[3]>>
      [] x[1] = "ninf" -> Zero
      [] x[1] = "pinf" -> Inf
      [] OTHER         -> NaN

\* IEEE subtraction a - b on logarithms.
ExtSub(a, b) ==
    CASE a[1] = "nan" \/ b[1] = "nan"   -> LNaN
      [] a[1] = "fin" /\ b[1] = "fin"   -> Fin(a[2] * b[3] - b[2] * a[3], a[3] * b[3])
      [] a[1] = "fin" /\ b[1] = "ninf"  -> PInf
      [] a[1] = "fin" /\ b[1] = "pinf"  -> NInf
      [] a[1] = "ninf" /\ b[1] = "ninf" -> LNaN
      [] a[1] = "pinf" /\ b[1] = "pinf" -> LNaN
      [] OTHER                          -> a

\* IEEE addition a + b on logarithms.
ExtAdd(a, b) ==
    CASE a[1] = "nan" \/ b[1] = "nan"   -> LNaN
      [] a[1] = "fin" /\ b[1] = "fin"   -> Fin(a[2] * b[3] + b[2] * a[3], a[3] * b[3])
      [] a[1] = "fin"                   -> b
      [] b[1] = "fin"                   -> a
      [] a[1] = b[1]                    -> a
      [] OTHER                          -> LNaN

\* x / k for an integer k > 0.
ExtDivInt(x, k) == IF x[1] = "fin" THEN Fin(x[2], x[3] * k) ELSE x

\* i * x for an integer i >= 0 (0 * inf is NaN).
ExtMulInt(i, x) ==
    CASE x[1] = "fin" -> Fin(i * x[2], x[3])
      [] x[1] = "nan" -> LNaN
      [] i = 0        -> LNaN
      [] OTHER        -> x

\* a < b on floats of the model (every comparison with NaN is false).
ValLess(a, b) ==
    CASE a[1] = "nan" \/ b[1] = "nan" -> FALSE
      [] a[1] = "pos" /\ b[1] = "pos" -> a[2] * b[3] < b[2] * a[3]
      [] a[1] = "zero"                -> b[1] \in {"pos", "inf"}
      [] a[1] = "pos"                 -> b[1] = "inf"
      [] OTHER                        -> FALSE

ValLeq(a, b) == ValLess(a, b) \/ (a = b /\ a[1] # "nan")

\* ----------------------------------------------------- range generator
\* np.linspace(start, stop, num, dtype=float), endpoint=True: num samples
\* arange(num) * step + start with step = (stop - start) / (num - 1); the last
\* sample is overwritten by stop when num > 1; for num = 1 there is no step
\* and the single sample is 0 * (stop - start) + start.
\* Mutant of LinspacePoint: endpoint=False, the step is (stop - start) / num.
LinspacePointOpen(start, stop, num, j) ==
    ExtAdd(ExtMulInt(j, ExtDivInt(ExtSub(stop, start), num)), start)

LinspacePoint(start, stop, num, j) ==
    LET delta == ExtSub(stop, start)
        div == num - 1
    IN  IF div > 0
        THEN IF j = num - 1
             THEN stop
             ELSE ExtAdd(ExtMulInt(j, ExtDivInt(delta, div)), start)
        ELSE ExtAdd(ExtMulInt(j, delta), start)

Linspace(start, stop, num) ==
    [j \in 1..num |-> LinspacePoint(start, stop, num, j - 1)]

\* range(hps, hp) for hps[hp] = (low, high, count): 10 ** linspace of the logs.
RangeOf(low, high, count) ==
    LET log_range == Linspace(Log10(low), Log10(high), count)
    IN  [j \in 1..Len(log_range) |-> Pow10(log_range[j])]

\* --------------------------------------------------------- grid search
\* crossvalid_nobar(..., k_fold=3, ...): the fold count every grid search passes.
K_FOLD == 3

Variants ==
    {"twolayergridsearch", "threelayergridsearch",
     "twolayergridsearch_AdamW", "threelayergridsearch_AdamW"}

IsAdamW(v) == v \in {"twolayergridsearch_AdamW", "threelayergridsearch_AdamW"}

\* The keys the comment of each function asks of hps, in the documented order.
KeysOf(v) == IF IsAdamW(v) THEN <<"dr", "lr", "wd">> ELSE <<"dr", "lr", "m", "wd">>

\* The classifier each function instantiates.
ClassifierOf(v) ==
    IF v \in {"twolayergridsearch", "twolayergridsearch_AdamW"}
    THEN "two_layer_classifier_do"
    ELSE "three_layer_classifier_do"

\* The datasets a grid search is given: P05_t (the default of df) or another
\* table.  n is the number of rows, labels the number of distinct labels.
P05_t == [name |-> "P05_t", n |-> NumSamples, labels |-> 3]
OtherDf == [name |-> "other", n |-> NumSamples + 1, labels |-> 2]
Datasets == {P05_t, OtherDf}

\* ranges_list=[range(hps, hp) for hp in hps.keys()]; hps is kept as the
\* sequence of its items <<key, low, high, count>> in insertion order.
RangesList(h) == [d \in 1..Len(h) |-> RangeOf(h[d][2], h[d][3], h[d][4])]

\* Mutant of Product: zip(*ranges_list), the ranges walked in step.
RECURSIVE MinLen(_)
MinLen(rl) ==
    IF Len(rl) = 1 THEN Len(rl[1])
    ELSE LET m == MinLen(Tail(rl)) IN IF Len(rl[1]) <= m THEN Len(rl[1]) ELSE m
ProductZip(rl) ==
    IF rl = <<>> THEN <<>>
    ELSE [j \in 1..MinLen(rl) |-> [d \in 1..Len(rl) |-> rl[d][j]]]

\* Mutant of Product: the first range varying fastest.
RECURSIVE ProductFirstFastest(_)
RECURSIVE AppendEach(_, _, _)
AppendEach(r, rest, j) ==
    IF j > Len(r) THEN <<>>
    ELSE [q \in 1..Len(rest) |-> rest[q] \o <<r[j]>>] \o AppendEach(r, rest, j + 1)
ProductFirstFastest(rl) ==
    IF rl = <<>> THEN << <<>> >>
    ELSE AppendEach(rl[Len(rl)], ProductFirstFastest(SubSeq(rl, 1, Len(rl) - 1)), 1)

\* list(it.product(*ranges_list)): the tuples in lexicographic order of their
\* positions, the last range varying fastest; product() of nothing is [()].
RECURSIVE Product(_)
RECURSIVE Prepend(_, _, _)
Prepend(r, rest, j) ==
    IF j > Len(r) THEN <<>>
    ELSE [q \in 1..Len(rest) |-> <<r[j]>> \o rest[q]] \o Prepend(r, rest, j + 1)
Product(rl) ==
    IF rl = <<>> THEN << <<>> >>
    ELSE Prepend(Head(rl), Product(Tail(rl)), 1)

\* A rational n/d in lowest terms, for the averages the table holds.
Rat(n, d) == Norm(n, d)

\* selector["best_f1_val"]=[0]*len(grid) and the three columns after it.
ZeroRow ==
    [best_f1_val |-> Rat(0, 1), f1_val_stop |-> 0,
     best_logloss_val |-> Rat(0, 1), logloss_val_stop |-> 0]
InitSelector(g) == [r \in 1..Len(g) |-> ZeroRow]

\* df['split_0_val']+df['split_1_val']+df['split_2_val'] of one metric.
SumSplits(curves) ==
    [e \in 1..Len(curves[1]) |-> curves[1][e] + curves[2][e] + curves[3][e]]

\* Series.max() and Series.min().
SeqMax(s) == CHOOSE x \in {s[e] : e \in 1..Len(s)} : \A e \in 1..Len(s) : s[e] <= x
SeqMin(s) == CHOOSE x \in {s[e] : e \in 1..Len(s)} : \A e \in 1..Len(s) : s[e] >= x

\* Series.argmax() and Series.argmin(): the 0-based position of the first
\* occurrence of the extreme value.
\* Mutant of FirstAt: the 1-based position.
RECURSIVE FirstAtOneBased(_, _, _)
FirstAtOneBased(s, v, j) == IF s[j] = v THEN j ELSE FirstAtOneBased(s, v, j + 1)

RECURSIVE FirstAt(_, _, _)
FirstAt(s, v, j) == IF s[j] = v THEN j - 1 ELSE FirstAt(s, v, j + 1)
ArgMax(s) == FirstAt(s, SeqMax(s), 1)
ArgMin(s) == FirstAt(s, SeqMin(s), 1)

\* The four selector.loc[i, ...] assignments of the SGD functions.
RowSGD(row, out) ==
    LET f1 == SumSplits(out.unweighted_f1)
        ll == SumSplits(out.logloss)
    IN  [best_f1_val |-> Rat(SeqMax(f1), K_FOLD), f1_val_stop |-> ArgMax(f1),
         best_logloss_val |-> Rat(SeqMin(ll), K_FOLD), logloss_val_stop |-> ArgMin(ll)]

\* The four selector.loc[i, ...] assignments of the AdamW functions: the third
\* and fourth assign to 'best_f1_val' and 'f1_val_stop' again.
RowAdamW(row, out) ==
    LET f1 == SumSplits(out.unweighted_f1)
        ll == SumSplits(out.logloss)
        r1 == [row EXCEPT !.best_f1_val = Rat(SeqMax(f1), K_FOLD)]
        r2 == [r1 EXCEPT !.f1_val_stop = ArgMax(f1)]
        r3 == [r2 EXCEPT !.best_f1_val = Rat(SeqMin(ll), K_FOLD)]
    IN  [r3 EXCEPT !.f1_val_stop = ArgMin(ll)]

RecordRow(v, row, out) == IF IsAdamW(v) THEN RowAdamW(row, out) ELSE RowSGD(row, out)

\* ------------------------------------------------- cross-validation
\* scripts/utility_functions.py (crossvalid_nobar, crossvalid_AdamW_nobar) is
\* not among the sources; it is modelled from the specification: the dataset
\* is partitioned into k folds, each fold is trained on the other k-1 folds for
\* the whole epoch budget, and the validation metrics are recorded per epoch.

\* Size and first position of fold f (0-based) among n shuffled samples.
FoldSize(n, k, f) == n \div k + (IF f < n % k THEN 1 ELSE 0)
RECURSIVE FoldStart(_, _, _)
FoldStart(n, k, f) ==
    IF f = 0 THEN 0 ELSE FoldStart(n, k, f - 1) + FoldSize(n, k, f - 1)

\* Mutant of ValFold: the slice of a fold runs one position into the next.
ValFoldOverlapping(n, k, shift, f) ==
    {s \in 0..(n - 1) :
        LET p == (s + shift) % n
        IN  FoldStart(n, k, f) <= p /\ p <= FoldStart(n, k, f) + FoldSize(n, k, f)}

\* The validation samples of fold f: the samples whose position in the
\* shuffled order (a rotation by shift) falls into the fold's slice.
ValFold(n, k, shift, f) ==
    {s \in 0..(n - 1) :
        LET p == (s + shift) % n
        IN  FoldStart(n, k, f) <= p /\ p < FoldStart(n, k, f) + FoldSize(n, k, f)}

\* The k folds of one call: validation and training samples of each.
KFoldSplits(n, k, shift) ==
    [f \in 1..k |->
        [val |-> ValFold(n, k, shift, f - 1),
         train |-> (0..(n - 1)) \ ValFold(n, k, shift, f - 1)]]

\* A number that tells apart the floats handed to training.
ValCode(v) ==
    CASE v[1] = "pos"  -> 2 * Abs(v[2]) + v[3]
      [] v[1] = "zero" -> 1
      [] v[1] = "none" -> 0
      [] OTHER         -> 4

\* What training depends on: the run's seed, the model and the optimizer's
\* hyperparameters.
RunCode(sd, mdl, a) ==
    sd + 3 * ValCode(mdl.dr) + 2 * ValCode(a.lr) + ValCode(a.m) + ValCode(a.wd)
    + mdl.num_labels + (IF mdl.arch = "two_layer_classifier_do" THEN 0 ELSE 1)

\* The validation metric of fold f (0-based) after epoch e (0-based) of the run
\* with code c: macro F1 in halves (0, 1/2, 1), log-loss in whole units 0..3.
\* The arithmetic only spreads the outcomes: rising, falling and tied curves.
F1Metric(c, f, e) == ((c * 7 + f * 5 + e * 3 + c * e + f * e * e) % 11) % 3
LogLossMetric(c, f, e) == ((c * 5 + f * 3 + e * 7 + c * f + e * e * (c + 1)) % 13) % 4

\* The curves of one fold: n_ep values of each metric.
FoldCurves(c, f, n_ep) ==
    [unweighted_f1 |-> [e \in 1..n_ep |-> F1Metric(c, f, e - 1)],
     logloss |-> [e \in 1..n_ep |-> LogLossMetric(c, f, e - 1)]]

\* ---------------------------------------------------------------- state
NoValue == <<"none", 0, 1>>
NoModel == [id |-> 0, arch |-> "none", num_labels |-> 0, dr |-> NoValue]
NoArgs == [lr |-> NoValue, m |-> NoValue, wd |-> NoValue]
NoOutput == [unweighted_f1 |-> <<>>, logloss |-> <<>>]
NoTable == [index |-> <<>>, rows |-> <<>>, bound |-> FALSE]

VARIABLES
    pc,          \* control point of the program under the current specification
    cell,        \* the name the calling cell assigns the table to ("call": no cell)
    variant,     \* the grid-search function that was called
    hps,         \* its argument hps: items <<key, low, high, count>> in order
    df,          \* its argument df
    n_epochs,    \* the epoch budget of the cross-validation routine
    seed,        \* selects the outcome of training
    ranges_list, \* local ranges_list
    grid,        \* local grid
    selector,    \* local selector: its rows, in positional order
    index,       \* selector.index: "range" (0..len-1) or the list assigned to it
    i,           \* the loop's i
    model_pt,    \* local model_pt
    cv_args,     \* lr, m, wd handed to the cross-validation call in flight
    splits,      \* the folds of the cross-validation call in flight
    fold,        \* number of folds the call in flight has trained
    output_pt,   \* curves by metric and by fold of the call in flight
    trained,     \* history: model and arguments of every finished call
    result,      \* the table bound by the caller's assignment
    binding,     \* the table the cell's name is bound to in the notebook
    rg_in,       \* range generator alone: its (low, high, count)
    rg_out,      \* range generator alone: the sequence it returned
    y_tr,        \* hold-one-session-out: the label of every training sample
    session_tr,  \* hold-one-session-out: the session of every training sample
    pred_prob,   \* hold-one-session-out: the probabilities predicted per sample
    todo,        \* hold-one-session-out: the sessions the loop has yet to hold out
    fitted,      \* history: session, training samples and classes_ of every fit
    old_df,      \* split notebook: the table read from directory_w_train_test.csv
    session_counts, \* split notebook: training rows per session
    new_df,      \* split notebook: the table with small sessions moved to test
    new_csv,     \* split notebook: the rows written to tt_small_sessions.csv
    data_files,  \* export notebook: the Filename column of the directory table
    features,    \* export notebook: the tensors saved, as <<key, filename>> writes
    file_name,   \* session derivation: the file name a session is derived from
    split_session,  \* session derivation: <<session>> once get_session has run
    export_session  \* session derivation: <<session>> once the export lambda has run

vars ==
    <<pc, cell, variant, hps, df, n_epochs, seed, ranges_list, grid, selector, index,
      i, model_pt, cv_args, splits, fold, output_pt, trained, result, binding, rg_in,
      rg_out, y_tr, session_tr, pred_prob, todo, fitted, old_df, session_counts, new_df,
      new_csv, data_files, features, file_name, split_session,
      export_session>>

sweepInputs == <<cell, variant, hps, df, n_epochs, seed>>
rangeVars == <<rg_in, rg_out>>
losoVars == <<y_tr, session_tr, pred_prob, todo, fitted>>
splitVars == <<old_df, session_counts, new_df, new_csv>>
exportVars == <<data_files, features>>
sessionVars == <<file_name, split_session, export_session>>
\* What a grid search leaves alone.
sideVars == <<rangeVars, losoVars, splitVars, exportVars, sessionVars>>

\* --------------------------------------------------------------- inputs
\* The bounds of each dimension, after the notebook's hps dictionaries:
\* powers of ten between 10^-MaxExp and 10^0.
LowOf(key) ==
    CASE key = "dr" -> Pos(-1, 1)
      [] key = "lr" -> Pos(-MaxExp, 1)
      [] key = "m"  -> Pos(-1, 1)
      [] OTHER      -> Pos(-MaxExp, 1)
HighOf(key) ==
    CASE key = "dr" -> Pos(0, 1)
      [] key = "lr" -> Pos(-1, 1)
      [] key = "m"  -> Pos(0, 1)
      [] OTHER      -> Pos(0, 1)

\* The numbers of points asked per dimension.
CountsOf(key) ==
    CASE key = "dr" -> 0..MaxCount
      [] key = "lr" -> 1..(MaxCount - 1)
      [] key = "m"  -> 1..2
      [] OTHER      -> {1}

HpsOf(keys, counts) ==
    [d \in 1..Len(keys) |-> <<keys[d], LowOf(keys[d]), HighOf(keys[d]), counts[d]>>]

\* The dictionaries of the documented shape.
DocumentedHps(v) ==
    LET keys == KeysOf(v)
    IN  {HpsOf(keys, c) :
            c \in {c \in [1..Len(keys) -> 0..MaxCount] :
                      \A d \in 1..Len(keys) : c[d] \in CountsOf(keys[d])}}

\* A dictionary with a zero bound, one with too few keys, and the empty one.
ZeroLowHps(v) == [HpsOf(KeysOf(v), [d \in 1..Len(KeysOf(v)) |-> IF d = 1 THEN 2 ELSE 1])
                    EXCEPT ![1][2] = Zero]
ZeroHighHps(v) == [HpsOf(KeysOf(v), [d \in 1..Len(KeysOf(v)) |-> IF d = 2 THEN 2 ELSE 1])
                    EXCEPT ![2][3] = Zero]
ShortHps == HpsOf(<<"dr", "lr">>, <<2, 1>>)
\* A dictionary with the documented keys, lr inserted before dr.
ReorderedHps(v) ==
    IF IsAdamW(v) THEN HpsOf(<<"lr", "dr", "wd">>, <<1, 2, 1>>)
                  ELSE HpsOf(<<"lr", "dr", "m", "wd">>, <<1, 2, 1, 1>>)
HpsInputs(v) ==
    DocumentedHps(v) \cup {ZeroLowHps(v), ZeroHighHps(v), ShortHps, <<>>, ReorderedHps(v)}

\* The epoch budgets of the cross-validation routine: a single epoch, the
\* largest budget and one in between.
EpochBudgets == {1, MaxEpochs - 2, MaxEpochs}

\* The bounds handed to the range generator when it is checked alone.
BoundValues == {Zero} \cup {Pos(-x, 1) : x \in 0..MaxExp}
RangeInputs == BoundValues \X BoundValues \X (0..(MaxCount + 1))

\* The cells of the notebook that run a grid search, by the name each assigns
\* the table to, and the function each calls.
CellNames == {"selector", "selector3", "selector2A", "selector3A"}
CellCalls(c) ==
    CASE c = "selector"   -> "twolayergridsearch"
      [] c = "selector3"  -> "twolayergridsearch"
      [] c = "selector2A" -> "twolayergridsearch_AdamW"
      [] c = "selector3A" -> "twolayergridsearch_AdamW"
\* The cells pass dictionaries of the documented shape, every count at least 1,
\* and no df.
CellHps(c) == {h \in DocumentedHps(CellCalls(c)) : \A d \in 1..Len(h) : h[d][4] >= 1}

\* ----------------------------------------------------------------- Init
RangeIdle == /\ rg_in = <<Zero, Zero, 0>>
             /\ rg_out = <<>>

LosoIdle == /\ y_tr = <<>>
            /\ session_tr = <<>>
            /\ pred_prob = <<>>
            /\ todo = <<>>
            /\ fitted = <<>>

SplitIdle == /\ old_df = <<>>
             /\ session_counts = <<>>
             /\ new_df = <<>>
             /\ new_csv = <<>>

ExportIdle == /\ data_files = <<>>
              /\ features = <<>>

SessionIdle == /\ file_name = <<>>
               /\ split_session = <<>>
               /\ export_session = <<>>

SweepIdle ==
    /\ ranges_list = <<>>
    /\ grid = <<>>
    /\ selector = <<>>
    /\ index = [kind |-> "range", labels |-> <<>>]
    /\ i = 0
    /\ model_pt = NoModel
    /\ cv_args = NoArgs
    /\ splits = <<>>
    /\ fold = 0
    /\ output_pt = NoOutput
    /\ trained = <<>>
    /\ result = NoTable

\* The table an earlier run of a cell left bound to the cell's name.
PreviousTable == [index |-> <<<<Pos(0, 1)>>>>, rows |-> <<ZeroRow>>, bound |-> TRUE]

\* A cell calls one of the grid-search functions.
Init ==
    /\ pc = "start"
    /\ cell \in CellNames \cup {"call"}
    /\ IF cell = "call"
       THEN /\ variant \in Variants
            /\ hps \in HpsInputs(variant)
            /\ df \in Datasets
       ELSE /\ variant = CellCalls(cell)
            /\ hps \in CellHps(cell)
            /\ df = P05_t
    /\ n_epochs \in EpochBudgets
    /\ seed \in 0..MaxSeed
    /\ SweepIdle
    /\ binding \in (IF cell = "call" THEN {NoTable} ELSE {NoTable, PreviousTable})
    /\ RangeIdle
    /\ LosoIdle
    /\ SplitIdle
    /\ ExportIdle
    /\ SessionIdle

\* -------------------------------------------------------------- actions
\* Lines 2-9 of the function: the ranges, the grid and the table of zeros.
Build ==
    /\ pc = "start"
    /\ ranges_list' = RangesList(hps)
    /\ grid' = Product(RangesList(hps))
    /\ selector' = InitSelector(Product(RangesList(hps)))
    /\ index' = [kind |-> "range", labels |-> <<>>]
    /\ i' = 0
    /\ pc' = "loop"
    /\ UNCHANGED <<sweepInputs, model_pt, cv_args, splits, fold, output_pt, trained,
                   result, binding,
                   sideVars>>

\* Mutant of Pt: the grid walked from its end.
PtReversed == grid[Len(grid) - i]

\* The grid point the loop is at.
Pt == grid[i + 1]

\* Mutant of NewModel: the model of the previous point is kept.
NewModelReusing ==
    /\ pc = "loop"
    /\ i < Len(grid)
    /\ IF Len(Pt) < 1
       THEN /\ pc' = "error"
            /\ UNCHANGED model_pt
       ELSE /\ pc' = "call"
            /\ model_pt' = IF model_pt # NoModel
                           THEN model_pt
                           ELSE [id |-> Len(trained) + 1,
                                 arch |-> ClassifierOf(variant),
                                 num_labels |-> P05_t.labels,
                                 dr |-> Pt[1]]
    /\ UNCHANGED <<sweepInputs, ranges_list, grid, selector, index, i, cv_args, splits,
                   fold, output_pt, trained, result, binding,
                   sideVars>>

\* model_pt=..._classifier_do(num_labels=len(P05_t.Label.unique()), dr=pt[0]);
\* pt[0] of an empty tuple raises IndexError.
NewModel ==
    /\ pc = "loop"
    /\ i < Len(grid)
    /\ IF Len(Pt) < 1
       THEN /\ pc' = "error"
            /\ UNCHANGED model_pt
       ELSE /\ pc' = "call"
            /\ model_pt' = [id |-> Len(trained) + 1,
                            arch |-> ClassifierOf(variant),
                            num_labels |-> P05_t.labels,
                            dr |-> Pt[1]]
    /\ UNCHANGED <<sweepInputs, ranges_list, grid, selector, index, i, cv_args, splits,
                   fold, output_pt, trained, result, binding,
                   sideVars>>

\* The arguments lr=pt[1], m=pt[2], wd=pt[3] (AdamW: lr=pt[1], wd=pt[2]).
ArgsOf(v, pt) ==
    IF IsAdamW(v)
    THEN [lr |-> pt[2], m |-> NoValue, wd |-> pt[3]]
    ELSE [lr |-> pt[2], m |-> pt[3], wd |-> pt[4]]
ArgsNeeded(v) == IF IsAdamW(v) THEN 3 ELSE 4

\* output_pt = crossvalid_nobar(model=model_pt, df=df, k_fold=3, ...): the
\* arguments are evaluated (IndexError on a short tuple) and the routine
\* partitions df into its folds.
CallCrossValid ==
    /\ pc = "call"
    /\ IF Len(Pt) < ArgsNeeded(variant)
       THEN /\ pc' = "error"
            /\ UNCHANGED <<cv_args, splits, fold, output_pt>>
       ELSE /\ pc' = "fold"
            /\ cv_args' = ArgsOf(variant, Pt)
            /\ splits' = KFoldSplits(df.n, K_FOLD,
                                     RunCode(seed, model_pt, ArgsOf(variant, Pt)) % df.n)
            /\ fold' = 0
            /\ output_pt' = NoOutput
    /\ UNCHANGED <<sweepInputs, ranges_list, grid, selector, index, i, model_pt,
                   trained, result, binding,
                   sideVars>>

\* Mutant of TrainFold: training a fold drops a row of df.
TrainFoldMutatingDf ==
    /\ pc = "fold"
    /\ fold < K_FOLD
    /\ LET c == FoldCurves(RunCode(seed, model_pt, cv_args), fold, n_epochs)
       IN  output_pt' =
               [unweighted_f1 |-> Append(output_pt.unweighted_f1, c.unweighted_f1),
                logloss |-> Append(output_pt.logloss, c.logloss)]
    /\ fold' = fold + 1
    /\ pc' = IF fold + 1 = K_FOLD THEN "record" ELSE "fold"
    /\ df' = [df EXCEPT !.n = IF @ > K_FOLD THEN @ - 1 ELSE @]
    /\ UNCHANGED <<cell, variant, hps, n_epochs, seed, ranges_list, grid, selector,
                   index, i, model_pt, cv_args, splits, trained, result, binding,
                   sideVars>>

\* One fold of the call: trained for the whole epoch budget, the validation
\* metrics recorded after every epoch.
TrainFold ==
    /\ pc = "fold"
    /\ fold < K_FOLD
    /\ LET c == FoldCurves(RunCode(seed, model_pt, cv_args), fold, n_epochs)
       IN  output_pt' =
               [unweighted_f1 |-> Append(output_pt.unweighted_f1, c.unweighted_f1),
                logloss |-> Append(output_pt.logloss, c.logloss)]
    /\ fold' = fold + 1
    /\ pc' = IF fold + 1 = K_FOLD THEN "record" ELSE "fold"
    /\ UNCHANGED <<sweepInputs, ranges_list, grid, selector, index, i, model_pt,
                   cv_args, splits, trained, result, binding,
                   sideVars>>

\* Mutant of Record: the assignments reach row i and every row after it.
RecordFromRow ==
    /\ pc = "record"
    /\ selector' = [j \in 1..Len(selector) |->
                       IF j >= i + 1 THEN RecordRow(variant, selector[j], output_pt)
                                     ELSE selector[j]]
    /\ trained' = Append(trained, [pt |-> Pt, model |-> model_pt, args |-> cv_args])
    /\ i' = i + 1
    /\ pc' = "loop"
    /\ UNCHANGED <<sweepInputs, ranges_list, grid, index, model_pt, cv_args, splits,
                   fold, output_pt, result, binding,
                   sideVars>>

\* Mutant of Record: the loop steps over the point after the one it recorded.
RecordSkipping ==
    /\ pc = "record"
    /\ selector' = [selector EXCEPT ![i + 1] = RecordRow(variant, @, output_pt)]
    /\ trained' = Append(trained, [pt |-> Pt, model |-> model_pt, args |-> cv_args])
    /\ i' = i + 2
    /\ pc' = "loop"
    /\ UNCHANGED <<sweepInputs, ranges_list, grid, index, model_pt, cv_args, splits,
                   fold, output_pt, result, binding,
                   sideVars>>

\* The call returns and the four selector.loc[i, ...] assignments run.
Record ==
    /\ pc = "record"
    /\ selector' = [selector EXCEPT ![i + 1] = RecordRow(variant, @, output_pt)]
    /\ trained' = Append(trained, [pt |-> Pt, model |-> model_pt, args |-> cv_args])
    /\ i' = i + 1
    /\ pc' = "loop"
    /\ UNCHANGED <<sweepInputs, ranges_list, grid, index, model_pt, cv_args, splits,
                   fold, output_pt, result, binding,
                   sideVars>>

\* selector.index=grid, after the loop.
SetIndex ==
    /\ pc = "loop"
    /\ i = Len(grid)
    /\ index' = [kind |-> "list", labels |-> grid]
    /\ pc' = "return"
    /\ UNCHANGED <<sweepInputs, ranges_list, grid, selector, i, model_pt, cv_args,
                   splits, fold, output_pt, trained, result, binding,
                   sideVars>>

\* return selector, and the caller's assignment (selector=twolayergridsearch(hps)).
Return ==
    /\ pc = "return"
    /\ result' = [index |-> index.labels, rows |-> selector, bound |-> TRUE]
    /\ binding' = [index |-> index.labels, rows |-> selector, bound |-> TRUE]
    /\ pc' = "done"
    /\ UNCHANGED <<sweepInputs, ranges_list, grid, selector, index, i, model_pt,
                   cv_args, splits, fold, output_pt, trained, sideVars>>

\* Mutant of Interrupt: the function hands back the table it has so far.
InterruptReturning ==
    /\ pc \in {"loop", "call", "fold", "record"}
    /\ pc' = "interrupted"
    /\ result' = [index |-> <<>>, rows |-> selector, bound |-> TRUE]
    /\ binding' = [index |-> <<>>, rows |-> selector, bound |-> TRUE]
    /\ ranges_list' = <<>>
    /\ grid' = <<>>
    /\ selector' = <<>>
    /\ index' = [kind |-> "range", labels |-> <<>>]
    /\ model_pt' = NoModel
    /\ cv_args' = NoArgs
    /\ splits' = <<>>
    /\ fold' = 0
    /\ output_pt' = NoOutput
    /\ UNCHANGED <<sweepInputs, i, trained, sideVars>>

\* Mutant of Interrupt: the interrupt unbinds the cell's name.
InterruptUnbinding ==
    /\ pc \in {"loop", "call", "fold", "record"}
    /\ pc' = "interrupted"
    /\ ranges_list' = <<>>
    /\ grid' = <<>>
    /\ selector' = <<>>
    /\ index' = [kind |-> "range", labels |-> <<>>]
    /\ model_pt' = NoModel
    /\ cv_args' = NoArgs
    /\ splits' = <<>>
    /\ fold' = 0
    /\ output_pt' = NoOutput
    /\ binding' = NoTable
    /\ UNCHANGED <<sweepInputs, i, trained, result, sideVars>>

\* KeyboardInterrupt while the loop runs: the call is abandoned, its locals go
\* with its frame and the caller's assignment does not take place (i and the
\* history stay, to tell where the run stopped).
Interrupt ==
    /\ pc \in {"loop", "call", "fold", "record"}
    /\ pc' = "interrupted"
    /\ ranges_list' = <<>>
    /\ grid' = <<>>
    /\ selector' = <<>>
    /\ index' = [kind |-> "range", labels |-> <<>>]
    /\ model_pt' = NoModel
    /\ cv_args' = NoArgs
    /\ splits' = <<>>
    /\ fold' = 0
    /\ output_pt' = NoOutput
    /\ UNCHANGED <<sweepInputs, i, trained, result, binding,
                   sideVars>>

Next ==
    \/ Build
    \/ NewModel
    \/ CallCrossValid
    \/ TrainFold
    \/ Record
    \/ SetIndex
    \/ Return
    \/ Interrupt

Spec == Init /\ [][Next]_vars

\* A run nobody interrupts: the interpreter executes one statement after the
\* other, so a step that can be taken is taken.
NextUninterrupted ==
    \/ Build
    \/ NewModel
    \/ CallCrossValid
    \/ TrainFold
    \/ Record
    \/ SetIndex
    \/ Return

\* The statements of the loop and after it, and the start of the call: a step
\* that leaves "start" is the Build step.
LoopStatements ==
    \/ NewModel
    \/ CallCrossValid
    \/ TrainFold
    \/ Record
    \/ SetIndex
    \/ Return
CallStarts == pc = "start" /\ pc' = "loop"

SpecUninterrupted ==
    /\ Init
    /\ [][NextUninterrupted]_vars
    /\ WF_pc(CallStarts)
    /\ WF_vars(LoopStatements)

\* ------------------------------------------- the range generator alone
InitRange ==
    /\ pc = "range"
    /\ rg_in \in RangeInputs
    /\ rg_out = <<>>
    /\ cell = "call"
    /\ variant = "none"
    /\ hps = <<>>
    /\ df = P05_t
    /\ n_epochs = 1
    /\ seed = 0
    /\ SweepIdle
    /\ binding = NoTable
    /\ LosoIdle
    /\ SplitIdle
    /\ ExportIdle
    /\ SessionIdle

\* range(hps, hp) with hps[hp] = rg_in.
ApplyRange ==
    /\ pc = "range"
    /\ rg_out' = RangeOf(rg_in[1], rg_in[2], rg_in[3])
    /\ pc' = "ranged"
    /\ UNCHANGED <<sweepInputs, ranges_list, grid, selector, index, i, model_pt,
                   cv_args, splits, fold, output_pt, trained, result, binding, rg_in,
                   losoVars,
                   splitVars, exportVars, sessionVars>>

NextRange == ApplyRange

SpecRange == InitRange /\ [][NextRange]_vars

\* ------------------------------------------ hold-one-session-out loop
\* The labels of label_list, as the integers y_tr holds.
LabelList == <<0, 1, 2>>
Labels == {LabelList[k] : k \in 1..Len(LabelList)}
\* The sessions a training sample may come from.
Sessions == {1, 2, 3}
TrainSamples == 1..NumSamples

\* Mutant of SortedSeq: the largest value is left out.
RECURSIVE SortedSeqOpen(_)
SortedSeqOpen(S) ==
    IF Cardinality(S) <= 1 THEN <<>>
    ELSE LET m == CHOOSE x \in S : \A y \in S : x <= y
         IN  <<m>> \o SortedSeqOpen(S \ {m})

\* A set of integers as the sorted array np.unique returns.
RECURSIVE SortedSeq(_)
SortedSeq(S) ==
    IF S = {} THEN <<>>
    ELSE LET m == CHOOSE x \in S : \A y \in S : x <= y
         IN  <<m>> \o SortedSeq(S \ {m})

\* list.index(x): the 0-based position of the first x.
RECURSIVE IndexOf(_, _)
IndexOf(q, x) == IF Head(q) = x THEN 0 ELSE 1 + IndexOf(Tail(q), x)

\* pred_prob = np.zeros(...); pred_prob[:] = np.nan: a row is NaN until it is
\* assigned.
NaNRow == [isnan |-> TRUE, p |-> [k \in 1..Len(LabelList) |-> 0]]

\* The probability the estimator fitted with session sess held out gives to
\* class c for sample s, in sixths: never 0 for a class the estimator knows.
Proba(s, c, sess) == 1 + ((s + 2 * c + sess) % 2)

\* est.predict_proba(X_tr[mask]): one row per held-out sample, one column per
\* class of classes_, in the order of classes_.
PredictProba(mask, classes, sess) ==
    [s \in mask |-> [k \in 1..Len(classes) |-> Proba(s, classes[k], sess)]]

\* The column of label n for sample s: pred[:, classes_.tolist().index(n)] if
\* n is in classes_, else zeros.
FillMissing(pred, classes, s, n) ==
    IF \E k \in 1..Len(classes) : classes[k] = n
    THEN pred[s][IndexOf(classes, n) + 1]
    ELSE 0

\* est.fit(X_tr[~mask], y_tr[~mask]) raises ValueError when the labels it is
\* given hold fewer than two classes: scikit-learn's LogisticRegression needs
\* samples of at least 2 classes.
FitRaises(train) == Cardinality({y_tr[s] : s \in train}) < 2

\* The cells before the loop have fitted the estimator on all of X_tr, y_tr
\* (at least two classes), and the loop is about several sessions.
InitLoso ==
    /\ pc = "loso"
    /\ y_tr \in [TrainSamples -> Labels]
    /\ Cardinality({y_tr[s] : s \in TrainSamples}) >= 2
    /\ session_tr \in [TrainSamples -> Sessions]
    /\ Cardinality({session_tr[s] : s \in TrainSamples}) >= 2
    /\ pred_prob = [s \in TrainSamples |-> NaNRow]
    /\ todo = SortedSeq({session_tr[s] : s \in TrainSamples})
    /\ fitted = <<>>
    /\ cell = "call"
    /\ variant = "none"
    /\ hps = <<>>
    /\ df = P05_t
    /\ n_epochs = 1
    /\ seed = 0
    /\ SweepIdle
    /\ binding = NoTable
    /\ RangeIdle
    /\ SplitIdle
    /\ ExportIdle
    /\ SessionIdle

\* Mutant of HoldOutSession: the estimator is fitted on every sample.
HoldOutSessionFitAll ==
    /\ pc = "loso"
    /\ todo # <<>>
    /\ LET session == Head(todo)
           mask == {s \in TrainSamples : session_tr[s] = session}
           train == TrainSamples
           classes == SortedSeq({y_tr[s] : s \in train})
           pred == PredictProba(mask, classes, session)
       IN  IF FitRaises(train)
           THEN /\ pc' = "fit_error"
                /\ UNCHANGED <<pred_prob, todo, fitted>>
           ELSE /\ pc' = "loso"
                /\ pred_prob' =
                       [s \in TrainSamples |->
                           IF s \in mask
                           THEN [isnan |-> FALSE,
                                 p |-> [k \in 1..Len(LabelList) |->
                                           FillMissing(pred, classes, s, LabelList[k])]]
                           ELSE pred_prob[s]]
                /\ todo' = Tail(todo)
                /\ fitted' = Append(fitted, [est |-> Len(fitted) + 1,
                                             session |-> session, train |-> train,
                                             classes |-> classes])
    /\ UNCHANGED <<sweepInputs, ranges_list, grid, selector, index, i, model_pt,
                   cv_args, splits, fold, output_pt, trained, result, binding,
                   rangeVars,
                   y_tr, session_tr, splitVars, exportVars, sessionVars>>

\* One pass of the loop body: a new estimator is fitted without the session,
\* predicts its samples, and the columns are laid out after label_list.
HoldOutSession ==
    /\ pc = "loso"
    /\ todo # <<>>
    /\ LET session == Head(todo)
           mask == {s \in TrainSamples : session_tr[s] = session}
           train == TrainSamples \ mask
           classes == SortedSeq({y_tr[s] : s \in train})
           pred == PredictProba(mask, classes, session)
       IN  IF FitRaises(train)
           THEN /\ pc' = "fit_error"
                /\ UNCHANGED <<pred_prob, todo, fitted>>
           ELSE /\ pc' = "loso"
                /\ pred_prob' =
                       [s \in TrainSamples |->
                           IF s \in mask
                           THEN [isnan |-> FALSE,
                                 p |-> [k \in 1..Len(LabelList) |->
                                           FillMissing(pred, classes, s, LabelList[k])]]
                           ELSE pred_prob[s]]
                /\ todo' = Tail(todo)
                /\ fitted' = Append(fitted, [est |-> Len(fitted) + 1,
                                             session |-> session, train |-> train,
                                             classes |-> classes])
    /\ UNCHANGED <<sweepInputs, ranges_list, grid, selector, index, i, model_pt,
                   cv_args, splits, fold, output_pt, trained, result, binding,
                   rangeVars,
                   y_tr, session_tr, splitVars, exportVars, sessionVars>>

\* assert not np.isnan(pred_prob).any()
AssertNoNaN ==
    /\ pc = "loso"
    /\ todo = <<>>
    /\ pc' = IF \E s \in TrainSamples : pred_prob[s].isnan
             THEN "assert_failed"
             ELSE "loso_done"
    /\ UNCHANGED <<sweepInputs, ranges_list, grid, selector, index, i, model_pt,
                   cv_args, splits, fold, output_pt, trained, result, binding,
                   rangeVars,
                   losoVars, splitVars, exportVars, sessionVars>>

NextLoso ==
    \/ HoldOutSession
    \/ AssertNoNaN

SpecLoso == InitLoso /\ [][NextLoso]_vars

\* ------------------------------------------------- the split notebook
\* What the other notebooks leave alone of a grid search.
sweepVars ==
    <<sweepInputs, ranges_list, grid, selector, index, i, model_pt, cv_args, splits,
      fold, output_pt, trained, result, binding>>
SweepUnused ==
    /\ cell = "call"
    /\ variant = "none"
    /\ hps = <<>>
    /\ df = P05_t
    /\ n_epochs = 1
    /\ seed = 0
    /\ SweepIdle
    /\ binding = NoTable

\* session_counts < 15
SmallSession == 15

\* A string is the sequence of its characters.
Digit(n) == <<"0", "1", "2", "3", "4", "5", "6", "7", "8", "9">>[n + 1]

\* The name of the k-th clip of a session: the session, "_" and the hour of
\* the recording, then "-" and what tells the clip apart.
FilenameOf(sess, k) ==
    <<sess, "_", "0", Digit(k % 2), "-", Digit(k \div 10), Digit(k % 10),
      ".", "w", "a", "v">>

\* The rows of one session in directory_w_train_test.csv: u test rows and
\* t training rows.
SessionRows(sess, t, u) ==
    [k \in 1..(t + u) |->
        [Filename |-> FilenameOf(sess, k),
         Label |-> k % 3,
         is_test |-> IF k <= u THEN 1 ELSE 0]]

\* Training rows per session: none, one, and around the threshold.
TrainCounts == {0, 1, SmallSession - 1, SmallSession, SmallSession + 1}
DirectoryTables ==
    {SessionRows("A", ta, ua) \o SessionRows("B", tb, ub) :
        ta \in TrainCounts, ua \in 0..MaxTestRows,
        tb \in TrainCounts, ub \in 0..MaxTestRows}

\* filename.split('-')[0]: the text before the first '-'.
RECURSIVE SplitDashFirst(_)
SplitDashFirst(f) ==
    IF f = <<>> \/ Head(f) = "-" THEN <<>> ELSE <<Head(f)>> \o SplitDashFirst(Tail(f))

\* s[:-3]
DropLast3(str) == IF Len(str) <= 3 THEN <<>> ELSE SubSeq(str, 1, Len(str) - 3)

get_session(filename) == DropLast3(SplitDashFirst(filename))

\* Series.value_counts(): the number of rows per value that occurs.
ValueCounts(rows, K) ==
    [v \in {rows[k].Session : k \in K} |-> Cardinality({k \in K : rows[k].Session = v})]

\* Mutant of SmallSessions: the comparison is with one less.
SmallSessionsOffByOne(counts) == {v \in DOMAIN counts : counts[v] < SmallSession - 1}

\* session_counts[session_counts < 15].index
SmallSessions(counts) == {v \in DOMAIN counts : counts[v] < SmallSession}

\* old_df = pd.read_csv(old_csv_loc) has run.
InitSplit ==
    /\ pc = "split"
    /\ old_df \in DirectoryTables
    /\ session_counts = <<>>
    /\ new_df = <<>>
    /\ new_csv = <<>>
    /\ SweepUnused
    /\ RangeIdle
    /\ LosoIdle
    /\ ExportIdle
    /\ SessionIdle

\* old_df['Session'] = old_df.Filename.apply(get_session)
AddSession ==
    /\ pc = "split"
    /\ old_df' = [k \in 1..Len(old_df) |->
                     [Filename |-> old_df[k].Filename,
                      Label |-> old_df[k].Label,
                      is_test |-> old_df[k].is_test,
                      Session |-> get_session(old_df[k].Filename)]]
    /\ pc' = "split_session"
    /\ UNCHANGED <<sweepVars, rangeVars, losoVars, exportVars, sessionVars,
                   session_counts, new_df, new_csv>>

\* session_counts = old_df.loc[old_df.is_test==0].Session.value_counts()
CountSessions ==
    /\ pc = "split_session"
    /\ session_counts' =
           ValueCounts(old_df, {k \in 1..Len(old_df) : old_df[k].is_test = 0})
    /\ pc' = "split_counts"
    /\ UNCHANGED <<sweepVars, rangeVars, losoVars, exportVars, sessionVars,
                   old_df, new_df, new_csv>>

\* Mutant of MoveSmallSessions: only the training rows of label 0 are moved.
MoveSmallSessionsPartly ==
    /\ pc = "split_counts"
    /\ new_df' = [k \in 1..Len(old_df) |->
                     IF /\ old_df[k].Session \in SmallSessions(session_counts)
                        /\ old_df[k].Label = 0
                     THEN [old_df[k] EXCEPT !.is_test = 1]
                     ELSE old_df[k]]
    /\ pc' = "split_new"
    /\ UNCHANGED <<sweepVars, rangeVars, losoVars, exportVars, sessionVars, old_df,
                   session_counts, new_csv>>

\* Mutant of MoveSmallSessions: new_df is old_df itself, not a copy of it.
MoveSmallSessionsInPlace ==
    /\ pc = "split_counts"
    /\ new_df' = [k \in 1..Len(old_df) |->
                     IF old_df[k].Session \in SmallSessions(session_counts)
                     THEN [old_df[k] EXCEPT !.is_test = 1]
                     ELSE old_df[k]]
    /\ old_df' = new_df'
    /\ pc' = "split_new"
    /\ UNCHANGED <<sweepVars, rangeVars, losoVars, exportVars, sessionVars,
                   session_counts, new_csv>>

\* new_df = old_df.copy()
\* new_df.loc[new_df.Session.isin(session_counts[...].index), 'is_test'] = 1
MoveSmallSessions ==
    /\ pc = "split_counts"
    /\ new_df' = [k \in 1..Len(old_df) |->
                     IF old_df[k].Session \in SmallSessions(session_counts)
                     THEN [old_df[k] EXCEPT !.is_test = 1]
                     ELSE old_df[k]]
    /\ pc' = "split_new"
    /\ UNCHANGED <<sweepVars, rangeVars, losoVars, exportVars, sessionVars, old_df,
                   session_counts, new_csv>>

\* new_df.to_csv(new_csv_loc)
ToCsv ==
    /\ pc = "split_new"
    /\ new_csv' = new_df
    /\ pc' = "split_csv"
    /\ UNCHANGED <<sweepVars, rangeVars, losoVars, exportVars, sessionVars, old_df,
                   session_counts, new_df>>

NextSplit ==
    \/ AddSession
    \/ CountSessions
    \/ MoveSmallSessions
    \/ ToCsv

SpecSplit == InitSplit /\ [][NextSplit]_vars

\* ------------------------------------------------ the export notebook
\* The rows data_files may hold: two clips, either label, either split.
DirectoryRows ==
    [Filename : {FilenameOf("A", 1), FilenameOf("B", 2)}, Label : {0, 1}, is_test : {0, 1}]
RECURSIVE SeqsUpTo(_, _)
SeqsUpTo(S, n) ==
    IF n = 0 THEN {<<>>}
    ELSE SeqsUpTo(S, n - 1) \cup
         {Append(q, x) : q \in {q \in SeqsUpTo(S, n - 1) : Len(q) = n - 1}, x \in S}

\* data_files = pd.read_csv("../data/directory_w_train_test.csv") has run and
\* the export cell starts.
InitExport ==
    /\ pc = "export"
    /\ data_files \in SeqsUpTo(DirectoryRows, MaxFiles)
    /\ features = <<>>
    /\ SweepUnused
    /\ RangeIdle
    /\ LosoIdle
    /\ SplitIdle
    /\ SessionIdle

\* with torch.no_grad: -- torch.no_grad is the class, not an instance of it
\* (no call), and a class is no context manager: the with statement raises
\* (TypeError; AttributeError __enter__ before Python 3.11) before the loop in
\* its body starts, so no file is loaded and no tensor saved.
EnterNoGrad ==
    /\ pc = "export"
    /\ pc' = "export_error"
    /\ UNCHANGED <<sweepVars, rangeVars, losoVars, splitVars, exportVars, sessionVars>>

NextExport == EnterNoGrad

SpecExport == InitExport /\ [][NextExport]_vars

\* ------------------------------------------------- session of a file name
\* The longest file name the derivations are compared on.
MaxNameLen == 5
\* The characters of a name: a letter, a digit and the separator.
NameChars == {"A", "0", "-"}
\* Names of every shape up to MaxNameLen and the names of the directory.
Filenames ==
    SeqsUpTo(NameChars, MaxNameLen)
        \cup {FilenameOf(sess, k) : sess \in {"A", "B"}, k \in 1..3}

\* Mutant of ExportSession: the name is not cut at the "-".
ExportSessionNoSplit(name) == DropLast3(name)

\* lambda name: name.split("-")[0][:-3]
ExportSession(name) == DropLast3(SplitDashFirst(name))

InitSession ==
    /\ pc = "session"
    /\ file_name \in Filenames
    /\ split_session = <<>>
    /\ export_session = <<>>
    /\ SweepUnused
    /\ RangeIdle
    /\ LosoIdle
    /\ SplitIdle
    /\ ExportIdle

\* old_df['Session'] = old_df.Filename.apply(get_session), for one row.
ApplyGetSession ==
    /\ pc = "session"
    /\ split_session = <<>>
    /\ split_session' = <<get_session(file_name)>>
    /\ UNCHANGED <<pc, sweepVars, rangeVars, losoVars, splitVars, exportVars,
                   file_name, export_session>>

\* training_files["session"] = training_files.Filename.apply(lambda ...), for
\* one row.
ApplyExportSession ==
    /\ pc = "session"
    /\ export_session = <<>>
    /\ export_session' = <<ExportSession(file_name)>>
    /\ UNCHANGED <<pc, sweepVars, rangeVars, losoVars, splitVars, exportVars,
                   file_name, split_session>>

NextSession ==
    \/ ApplyGetSession
    \/ ApplyExportSession

SpecSession == InitSession /\ [][NextSession]_vars

\* ------------------------------------------------------------- claims
\* The function has built its grid and its table.
Built == pc \in {"loop", "call", "fold", "record", "return", "done", "error"}

RECURSIVE CountProduct(_)
CountProduct(h) == IF h = <<>> THEN 1 ELSE Head(h)[4] * CountProduct(Tail(h))

\* The curves training produces for a finished call t of the history.
OutputOf(t) ==
    LET c == RunCode(seed, t.model, t.args)
    IN  [unweighted_f1 |-> [f \in 1..K_FOLD |-> FoldCurves(c, f - 1, n_epochs).unweighted_f1],
         logloss |-> [f \in 1..K_FOLD |-> FoldCurves(c, f - 1, n_epochs).logloss]]
AggF1(t) == SumSplits(OutputOf(t).unweighted_f1)
AggLogLoss(t) == SumSplits(OutputOf(t).logloss)

\* C1: the grid has as many points as the product of the per-dimension counts,
\* and so has the table of zeros built from it and the table that is returned.
C1_GridSizeIsProduct ==
    /\ Built => /\ Len(grid) = CountProduct(hps)
                /\ Len(selector) = CountProduct(hps)
    /\ result.bound => /\ Len(result.rows) = CountProduct(hps)
                       /\ Len(result.index) = CountProduct(hps)

\* C1 witness: a table of 3 * 2 rows was returned.
C1_Witness ==
    /\ result.bound
    /\ Len(hps) >= 3
    /\ hps[1][4] = 3 /\ hps[2][4] = 2
    /\ Len(result.rows) = 6

\* C2 (as claimed): every row of a returned table holds the best aggregated F1
\* with its epoch in best_f1_val/f1_val_stop and the best aggregated log-loss
\* with its epoch in best_logloss_val/logloss_val_stop.
C2_RowHoldsBestOfEachMetric ==
    result.bound =>
        \A j \in 1..Len(result.rows) :
            LET row == result.rows[j]
                f1 == AggF1(trained[j])
                ll == AggLogLoss(trained[j])
            IN  /\ row.f1_val_stop \in 0..(Len(f1) - 1)
                /\ row.logloss_val_stop \in 0..(Len(ll) - 1)
                /\ row.best_f1_val = Rat(f1[row.f1_val_stop + 1], K_FOLD)
                /\ row.best_logloss_val = Rat(ll[row.logloss_val_stop + 1], K_FOLD)
                /\ \A e \in 1..Len(f1) : f1[e] <= f1[row.f1_val_stop + 1]
                /\ \A e \in 1..Len(ll) : ll[e] >= ll[row.logloss_val_stop + 1]

\* C3: at every moment both recorded epochs of every row are integers of
\* 0..n_epochs-1, in the local table and in the returned one.
C3_StopWithinEpochBudget ==
    /\ \A j \in 1..Len(selector) :
          /\ selector[j].f1_val_stop \in 0..(n_epochs - 1)
          /\ selector[j].logloss_val_stop \in 0..(n_epochs - 1)
    /\ \A j \in 1..Len(result.rows) :
          /\ result.rows[j].f1_val_stop \in 0..(n_epochs - 1)
          /\ result.rows[j].logloss_val_stop \in 0..(n_epochs - 1)

\* C3 witness: a returned row whose F1 epoch is the last epoch of the budget
\* and whose log-loss epoch is not the first.
C3_Witness ==
    /\ result.bound
    /\ n_epochs >= 3
    /\ \E j \in 1..Len(result.rows) :
          /\ result.rows[j].f1_val_stop = n_epochs - 1
          /\ result.rows[j].logloss_val_stop > 0

\* C4 (as claimed): in every returned row f1_val_stop is the smallest epoch at
\* which the aggregated F1 is maximal and logloss_val_stop the smallest epoch
\* at which the aggregated log-loss is minimal.
C4_FirstBestEpochRecorded ==
    result.bound =>
        \A j \in 1..Len(result.rows) :
            LET row == result.rows[j]
                f1 == AggF1(trained[j])
                ll == AggLogLoss(trained[j])
                bestF1 == {e \in 1..Len(f1) : \A e2 \in 1..Len(f1) : f1[e2] <= f1[e]}
                bestLL == {e \in 1..Len(ll) : \A e2 \in 1..Len(ll) : ll[e2] >= ll[e]}
            IN  /\ row.f1_val_stop + 1 \in bestF1
                /\ \A e \in bestF1 : row.f1_val_stop + 1 <= e
                /\ row.logloss_val_stop + 1 \in bestLL
                /\ \A e \in bestLL : row.logloss_val_stop + 1 <= e

\* C5 (as claimed): for positive bounds low <= high and count >= 1 the
\* sequence range returns is increasing, starts at low and ends at high.
RgLow == rg_in[1]
RgHigh == rg_in[2]
RgCount == rg_in[3]
RgDomain == /\ pc = "ranged"
            /\ RgLow[1] = "pos" /\ RgHigh[1] = "pos"
            /\ ValLeq(RgLow, RgHigh)
            /\ RgCount >= 1
RgIncreasing ==
    \A j \in 1..(Len(rg_out) - 1) :
        IF RgLow = RgHigh THEN rg_out[j] = rg_out[j + 1]
        ELSE ValLess(rg_out[j], rg_out[j + 1])
HasZeroBound(h) == \E d \in 1..Len(h) : h[d][2] = Zero \/ h[d][3] = Zero
C6_ZeroBoundRejected ==
    HasZeroBound(hps) => /\ grid = <<>>
                         /\ selector = <<>>
                         /\ ~result.bound

\* C7: while a cross-validation call is in flight its k folds partition the
\* dataset: every sample is validated in exactly one fold and trained on in
\* the k-1 others.
Samples == 0..(df.n - 1)
C7_FoldsPartition ==
    pc \in {"fold", "record"} =>
        /\ Len(splits) = K_FOLD
        /\ \A f \in 1..K_FOLD : /\ splits[f].val \subseteq Samples
                                /\ splits[f].train \subseteq Samples
        /\ \A s \in Samples :
              /\ Cardinality({f \in 1..K_FOLD : s \in splits[f].val}) = 1
              /\ Cardinality({f \in 1..K_FOLD : s \in splits[f].train}) = K_FOLD - 1
              /\ \A f \in 1..K_FOLD : s \in splits[f].val <=> s \notin splits[f].train

\* C7 witness: a call in flight whose folds have different, non-zero sizes and
\* whose first fold does not start at sample 0.
C7_Witness ==
    /\ pc = "fold"
    /\ fold = 1
    /\ \A f \in 1..K_FOLD : splits[f].val # {}
    /\ Cardinality(splits[1].val) > Cardinality(splits[K_FOLD].val)
    /\ 0 \notin splits[1].val

\* C9 (as claimed): the sweep over 3 dropout values and 2 learning rates with
\* 3 folds and 5 epochs returns 6 rows, and in each row both best values are
\* the aggregated value at the recorded epoch, an epoch of 0..4.
C9Scenario ==
    /\ Len(hps) >= 2
    /\ hps[1][1] = "dr" /\ hps[1][4] = 3
    /\ hps[2][1] = "lr" /\ hps[2][4] = 2
    /\ \A d \in 3..Len(hps) : hps[d][4] = 1
    /\ n_epochs = 5
C9_EndToEnd ==
    (C9Scenario /\ result.bound) =>
        /\ Len(result.rows) = 6
        /\ \A j \in 1..Len(result.rows) :
              LET row == result.rows[j]
              IN  /\ row.f1_val_stop \in 0..4
                  /\ row.logloss_val_stop \in 0..4
                  /\ row.best_f1_val = Rat(AggF1(trained[j])[row.f1_val_stop + 1], K_FOLD)
                  /\ row.best_logloss_val =
                         Rat(AggLogLoss(trained[j])[row.logloss_val_stop + 1], K_FOLD)

\* C10: the grid lists the tuples of the per-dimension ranges, taken in the key
\* order of hps, with the last dimension varying fastest; the points are
\* processed in that order, and in the returned table row j is labelled by
\* the j-th tuple and holds what was recorded for the call made with it.
RECURSIVE Stride(_, _)
Stride(rl, d) == IF d >= Len(rl) THEN 1 ELSE Len(rl[d + 1]) * Stride(rl, d + 1)
C10_GridOrder ==
    /\ Built =>
          /\ Len(ranges_list) = Len(hps)
          /\ \A d \in 1..Len(hps) : ranges_list[d] = RangeOf(hps[d][2], hps[d][3], hps[d][4])
          /\ \A j \in 1..Len(grid) :
                /\ Len(grid[j]) = Len(hps)
                /\ \A d \in 1..Len(hps) :
                      grid[j][d] =
                          ranges_list[d][(((j - 1) \div Stride(ranges_list, d))
                                            % Len(ranges_list[d])) + 1]
          /\ \A j \in 1..Len(trained) : trained[j].pt = grid[j]
    /\ result.bound =>
          /\ Len(result.index) = Len(result.rows)
          /\ Len(trained) = Len(result.rows)
          /\ \A j \in 1..Len(result.rows) :
                /\ result.index[j] = trained[j].pt
                /\ result.rows[j] = RecordRow(variant, ZeroRow, OutputOf(trained[j]))

\* C10 witness: a returned table over two dimensions of several points each,
\* with rows that differ.
C10_Witness ==
    /\ result.bound
    /\ Len(hps) >= 3
    /\ hps[1][4] >= 2 /\ hps[2][4] >= 2 /\ hps[3][4] >= 2
    /\ \E j, k \in 1..Len(result.rows) : result.rows[j] # result.rows[k]

\* C8 (as claimed): when a label is absent from the training partition of a
\* held-out session, every sample of that session gets probability 0 for the
\* label, and the loop raises no error.
AbsentLabels(train) == {n \in Labels : \A s \in train : y_tr[s] # n}
C8_AbsentLabelGetsZero ==
    /\ \A t \in 1..Len(fitted) :
          \A n \in AbsentLabels(fitted[t].train) :
              \A s \in TrainSamples \ fitted[t].train :
                  /\ ~pred_prob[s].isnan
                  /\ pred_prob[s].p[IndexOf(LabelList, n) + 1] = 0
    /\ (pc = "fit_error" /\ todo # <<>>) =>
          AbsentLabels({s \in TrainSamples : session_tr[s] # Head(todo)}) = {}

\* The function is between its build and its return.
Running == pc \in {"loop", "call", "fold", "record", "return", "done"}
InFlight == pc \in {"call", "fold", "record"}

\* The curves of a call hold every fold and every epoch.
FullOutput(out) ==
    /\ Len(out.unweighted_f1) = K_FOLD
    /\ Len(out.logloss) = K_FOLD
    /\ \A f \in 1..K_FOLD : /\ Len(out.unweighted_f1[f]) = n_epochs
                             /\ Len(out.logloss[f]) = n_epochs

C11_Order ==
    Running =>
        /\ Len(trained) = i
        /\ i <= Len(grid)
        /\ \A j \in 1..i : trained[j].pt = grid[j]
        /\ InFlight => (i < Len(grid) /\ model_pt.id = i + 1)
        /\ pc \in {"return", "done"} => i = Len(grid)

C11_Step ==
    /\ (model_pt' # model_pt /\ pc' # "interrupted") =>
           (pc = "loop" /\ fold \in {0, K_FOLD} /\ Len(trained) = i)
    /\ (fold' # fold /\ pc' = "fold") => model_pt.id = i + 1
    /\ i' # i =>
           /\ pc = "record"
           /\ i' = i + 1
           /\ FullOutput(output_pt)
           /\ selector'[i + 1] = RecordRow(variant, ZeroRow, output_pt)
           /\ trained' = Append(trained, [pt |-> grid[i + 1], model |-> model_pt,
                                          args |-> cv_args])

\* C11: the sweep is strictly sequential.  The points are processed in
\* increasing index order, each once; the model of point i+1 is created, and
\* its folds trained, only after every fold and every epoch of point i has
\* been evaluated and row i of the selector written.
C11_Sequential == [](C11_Order) /\ [][C11_Step]_vars

\* The second point is being trained after the first one was recorded.
C11_Witness == pc = "fold" /\ i >= 1 /\ fold >= 1 /\ Len(trained) = i

\* C12: after an interrupt during the evaluation of a point, the caller holds
\* no table: the assignment did not take place, and the table and the curves
\* of the function went with its frame, so no row of the point in flight or of
\* a pending point is retained.
C12_InterruptRetainsNothing ==
    pc = "interrupted" =>
        /\ ~result.bound
        /\ result.rows = <<>>
        /\ selector = <<>>
        /\ output_pt = NoOutput

\* Interrupted after a point was finished and before the last one was.
C12_Witness == pc = "interrupted" /\ Len(trained) >= 1 /\ i < CountProduct(hps)

\* C13 (as claimed): every grid point gets its own model, created once with
\* dr equal to the point's dr component, the one drawn from the range of the
\* key dr; no instance serves two points.
C13_FreshModelPerPoint ==
    /\ \A j \in 1..Len(trained) :
           /\ hps[1][1] = "dr"
           /\ trained[j].model.dr = trained[j].pt[1]
           /\ \A k \in 1..Len(trained) :
                  trained[j].model.id = trained[k].model.id => j = k
    /\ InFlight =>
           /\ model_pt.dr = Pt[1]
           /\ \A j \in 1..Len(trained) : trained[j].model.id # model_pt.id
    /\ pc = "done" => Len(trained) = Len(grid)

\* What holds of C13: with dr the first key of hps, as documented, the model
\* of a point gets the point's dr component.
C13_HoldsWithDrFirst ==
    (hps # <<>> /\ hps[1][1] = "dr") => C13_FreshModelPerPoint

\* Two points of different dropout rates were evaluated.
C13_Witness ==
    /\ Len(trained) >= 2
    /\ trained[1].pt[1] # trained[2].pt[1]
    /\ trained[2].model.dr = trained[2].pt[1]

\* The sum over the first f folds of the metric at epoch e (1-based).
RECURSIVE FoldSum(_, _, _)
FoldSum(curves, f, e) == IF f = 0 THEN 0 ELSE curves[f][e] + FoldSum(curves, f - 1, e)
\* The curve aggregated over every fold.
Aggregated(curves) == [e \in 1..n_epochs |-> FoldSum(curves, Len(curves), e)]

\* C14 (as claimed): for every evaluated grid point the recorded best F1 is
\* the maximum of the curve summed over all k folds divided by k, and the
\* recorded best log-loss is the minimum of the summed curve divided by k.
C14_BestIsFoldAverage ==
    Running =>
        \A j \in 1..i :
            LET out == OutputOf(trained[j])
            IN  /\ Len(out.unweighted_f1) = K_FOLD
                /\ Len(out.logloss) = K_FOLD
                /\ selector[j].best_f1_val =
                       Rat(SeqMax(Aggregated(out.unweighted_f1)), K_FOLD)
                /\ selector[j].best_logloss_val =
                       Rat(SeqMin(Aggregated(out.logloss)), K_FOLD)

\* The same, for the functions that train with SGD.
C14_HoldsForSGD == IsAdamW(variant) \/ C14_BestIsFoldAverage

\* C15: a grid search changes nothing but the table it returns.  No step of
\* it changes df or hps, none writes a file or touches the state of another
\* notebook (no model is saved), and the caller's table changes only when the
\* function returns.
C15_NoSideEffects ==
    [][/\ df' = df
       /\ hps' = hps
       /\ sideVars' = sideVars
       /\ result' # result => (pc = "return" /\ result'.rows = selector)]_vars

\* A sweep over a table other than the default has returned.
C15_Witness ==
    /\ pc = "done"
    /\ result.bound
    /\ df = OtherDf
    /\ Len(trained) >= 2

\* The function has returned the table of a grid it evaluated point by point.
Returned ==
    /\ pc = "done"
    /\ result.bound
    /\ Len(trained) = Len(grid)
    /\ \A j \in 1..Len(grid) : trained[j].pt = grid[j]
    /\ Len(result.rows) = Len(grid)

\* C16: a sweep that is not interrupted, over a dictionary with the keys the
\* function indexes (so that every call of the cross-validation takes place
\* and completes), ends: it evaluates the |grid| points, each once, and
\* returns the table.
C16_Terminates == (Len(hps) >= ArgsNeeded(variant)) => <>Returned

\* A sweep of several points has returned.
C16_Witness == Returned /\ Len(grid) >= 3

\* The rows of a table whose file name tells the session sess, and those of
\* them in the training split.
RowsOf(table, sess) == {k \in 1..Len(table) : get_session(table[k].Filename) = sess}
TrainRowsOf(table, sess) == {k \in RowsOf(table, sess) : table[k].is_test = 0}
SessionsOf(table) == {get_session(table[k].Filename) : k \in 1..Len(table)}
Reassigned == pc \in {"split_new", "split_csv"}

\* C17: after the reassignment every session with fewer than 15 training
\* rows in the original table has all its rows in the test split of the new
\* table, so a session that still has a training row has at least 15.
C17_SmallSessionsMoved ==
    Reassigned =>
        \A sess \in SessionsOf(old_df) :
            /\ Cardinality(TrainRowsOf(old_df, sess)) < SmallSession =>
                   \A k \in RowsOf(new_df, sess) : new_df[k].is_test = 1
            /\ TrainRowsOf(new_df, sess) # {} =>
                   Cardinality(TrainRowsOf(new_df, sess)) >= SmallSession

\* A session of 14 training rows was moved and one of 15 was kept.
C17_Witness ==
    /\ Reassigned
    /\ \E sess \in SessionsOf(old_df) :
           /\ Cardinality(TrainRowsOf(old_df, sess)) = SmallSession - 1
           /\ TrainRowsOf(new_df, sess) = {}
    /\ \E sess \in SessionsOf(old_df) :
           Cardinality(TrainRowsOf(new_df, sess)) = SmallSession

ThreeLayerCells == {"selector3", "selector3A"}

\* C18 (as claimed): the cells that fill selector3 and selector3A run the
\* three-layer grid search, so every model they evaluate is a
\* three_layer_classifier_do.
C18_ThreeLayerSweep ==
    cell \in ThreeLayerCells =>
        /\ \A j \in 1..Len(trained) : trained[j].model.arch = "three_layer_classifier_do"
        /\ InFlight => model_pt.arch = "three_layer_classifier_do"

\* filename.removesuffix('.wav')
WithoutWav(f) ==
    IF Len(f) >= 4 /\ SubSeq(f, Len(f) - 3, Len(f)) = <<".", "w", "a", "v">>
    THEN SubSeq(f, 1, Len(f) - 4)
    ELSE f

\* C19 (as claimed): when the export cell has run, every file listed in
\* data_files has exactly one saved tensor, keyed by its name without '.wav'.
C19_ExportCoversDataset ==
    pc = "export_error" =>
        \A k \in 1..Len(data_files) :
            Cardinality({w \in 1..Len(features) :
                            features[w][1] = WithoutWav(data_files[k].Filename)}) = 1

\* The number of passes of the loop that assigned the row of sample s.
TimesPredicted(s) == Cardinality({f \in 1..Len(fitted) : s \notin fitted[f].train})

\* C20: the loop over np.unique(session_tr) assigns every row of pred_prob
\* once.  Each sample is in the mask of one session only; a row is NaN until
\* the pass of its session and assigned by no other pass; when the loop has
\* gone through all sessions no row is NaN and the assertion passes.
C20_EverySamplePredictedOnce ==
    /\ pc # "assert_failed"
    /\ pc \in {"loso", "loso_done"} =>
           \A s \in TrainSamples :
               /\ TimesPredicted(s) <= 1
               /\ pred_prob[s].isnan <=> TimesPredicted(s) = 0
               /\ pred_prob[s].isnan <=> \E k \in 1..Len(todo) : todo[k] = session_tr[s]
               /\ todo = <<>> => TimesPredicted(s) = 1

\* The loop went through three sessions and the assertion passed.
C20_Witness == pc = "loso_done" /\ Len(fitted) = 3

\* C21: the estimator that predicts a session was fitted on the samples of
\* the other sessions, all of them and no other, and every session has an
\* estimator of its own.
C21_TrainExcludesHeldOut ==
    \A f \in 1..Len(fitted) :
        /\ \A s \in fitted[f].train : session_tr[s] # fitted[f].session
        /\ fitted[f].train = {s \in TrainSamples : session_tr[s] # fitted[f].session}
        /\ \A g \in 1..Len(fitted) :
               (fitted[g].est = fitted[f].est \/ fitted[g].session = fitted[f].session)
                   => g = f
        /\ \A s \in TrainSamples :
               (session_tr[s] = fitted[f].session) => ~pred_prob[s].isnan

\* Two sessions were held out, each predicted by its own estimator.
C21_Witness ==
    /\ Len(fitted) >= 2
    /\ fitted[1].train # fitted[2].train
    /\ \A s \in TrainSamples : ~pred_prob[s].isnan

\* The sessions some row of which went from the training to the test split.
MovedSessions ==
    {sess \in SessionsOf(old_df) :
        \E k \in RowsOf(old_df, sess) : old_df[k].is_test = 0 /\ new_df[k].is_test = 1}

\* C22: a session with a moved row has no row left in the training split of
\* the new table: its test rows are of a session the training data does not
\* hold.
C22_MovedSessionsLeaveTraining ==
    Reassigned =>
        \A sess \in MovedSessions :
            /\ TrainRowsOf(new_df, sess) = {}
            /\ \A k \in RowsOf(new_df, sess) :
                   \A t \in 1..Len(new_df) :
                       new_df[t].is_test = 0 => new_df[t].Session # new_df[k].Session

\* A session was moved while the other stayed in the training split.
C22_Witness ==
    /\ Reassigned
    /\ MovedSessions # {}
    /\ \E k \in 1..Len(new_df) : new_df[k].is_test = 0

C23_Frame ==
    Reassigned =>
        /\ Len(new_df) = Len(old_df)
        /\ \A k \in 1..Len(old_df) :
               /\ new_df[k].Filename = old_df[k].Filename
               /\ new_df[k].Label = old_df[k].Label
               /\ new_df[k].Session = old_df[k].Session
               /\ old_df[k].is_test = 1 => new_df[k].is_test = 1
               /\ Cardinality(TrainRowsOf(old_df, old_df[k].Session)) >= SmallSession
                      => new_df[k].is_test = old_df[k].is_test

C23_Step == pc \in {"split_counts", "split_new"} => old_df' = old_df

\* C23: the reassignment only moves rows from the training to the test
\* split.  No is_test goes from 1 to 0, the rows of sessions with 15 or more
\* training rows keep their is_test, every other column is as in old_df, and
\* old_df is not changed by it.
C23_OnlyTrainToTest == [](C23_Frame) /\ [][C23_Step]_vars

\* A table with a kept session, a moved one and test rows was reassigned.
C23_Witness ==
    /\ Reassigned
    /\ new_df # old_df
    /\ \E k \in 1..Len(old_df) : old_df[k].is_test = 1
    /\ \E k \in 1..Len(old_df) : new_df[k].is_test = 0

\* The loop is running: the table is built and not yet handed back.
Sweeping == pc \in {"loop", "call", "fold", "record"}

C24_Rows ==
    Sweeping =>
        /\ Len(selector) = Len(grid)
        /\ \A j \in 1..Len(selector) :
               selector[j] = IF j <= i
                             THEN RecordRow(variant, ZeroRow, OutputOf(trained[j]))
                             ELSE ZeroRow
C24_Final ==
    pc \in {"return", "done"} =>
        \A j \in 1..Len(selector) :
            selector[j] = RecordRow(variant, ZeroRow, OutputOf(trained[j]))

C24_Step ==
    (Sweeping /\ pc' # "interrupted") =>
        /\ Len(selector') = Len(selector)
        /\ \A j \in 1..Len(selector) :
               selector'[j] # selector[j] => (pc = "record" /\ j = i + 1)

\* C24: while the sweep runs and i points are processed, rows 0..i-1 of the
\* selector hold the values they have when the table is returned and rows
\* i..|grid|-1 hold the initial 0 in all four columns; processing point i
\* writes row i and no other row.
C24_RowsFilledInOrder == [](C24_Rows /\ C24_Final) /\ [][C24_Step]_vars

\* A point is in flight with a written row before it and an untouched row
\* after it.
C24_Witness ==
    /\ pc = "fold"
    /\ i >= 1
    /\ i + 1 < Len(grid)
    /\ selector[i] # ZeroRow
    /\ selector[i + 2] = ZeroRow

C25_Kept ==
    pc = "interrupted" =>
        /\ binding \in {NoTable, PreviousTable}
        /\ \A j \in 1..Len(trained) :
               \A r \in 1..Len(binding.index) : binding.index[r] # trained[j].pt

C25_Step == pc' = "interrupted" => binding' = binding

\* C25: an interrupt leaves the table the cell's name was bound to as it was
\* before the call.  The assignment does not take place, so the rows of the
\* points finished before the interrupt do not reach the caller either.
C25_InterruptKeepsBinding == [](C25_Kept) /\ [][C25_Step]_vars

\* Interrupted after a point was finished, the name bound by an earlier run.
C25_Witness ==
    /\ pc = "interrupted"
    /\ binding = PreviousTable
    /\ Len(trained) >= 1

\* C26 (as claimed): the model of every grid point has as many output labels
\* as the table df handed to the function has distinct labels.
C26_LabelsOfDf ==
    /\ \A j \in 1..Len(trained) : trained[j].model.num_labels = df.labels
    /\ InFlight => model_pt.num_labels = df.labels

\* The dictionary has the keys the function documents, in some order.
HasDocumentedKeys ==
    /\ Len(hps) = Len(KeysOf(variant))
    /\ {hps[d][1] : d \in 1..Len(hps)} = {KeysOf(variant)[d] : d \in 1..Len(hps)}
\* The component of a grid point drawn from the range of a key.
ComponentOf(pt, key) == pt[CHOOSE d \in 1..Len(hps) : hps[d][1] = key]

\* C27 (as claimed): whatever the order of the keys of hps, the model gets the
\* value drawn from the dr range as its dropout rate and the cross-validation
\* call gets the values drawn from the lr, m and wd ranges as lr, m and wd.
C27_ValuesReachTheirNames ==
    HasDocumentedKeys =>
        \A j \in 1..Len(trained) :
            LET t == trained[j]
            IN  /\ t.model.dr = ComponentOf(t.pt, "dr")
                /\ t.args.lr = ComponentOf(t.pt, "lr")
                /\ t.args.wd = ComponentOf(t.pt, "wd")
                /\ ~IsAdamW(variant) => t.args.m = ComponentOf(t.pt, "m")

\* What holds of C27 and C13: with the keys in the documented order the
\* values reach the consumers of their names.
C27_HoldsInDocumentedOrder ==
    (HasDocumentedKeys /\ \A d \in 1..Len(hps) : hps[d][1] = KeysOf(variant)[d])
        => C27_ValuesReachTheirNames

\* The text of a name before its first "-", the whole name if it has none,
\* without its last three characters.
BeforeDash(name) ==
    LET dashes == {k \in 1..Len(name) : name[k] = "-"}
        first == IF dashes = {} THEN Len(name) + 1
                 ELSE CHOOSE k \in dashes : \A d \in dashes : k <= d
    IN  SubSeq(name, 1, first - 1)
SessionText(name) ==
    IF Len(BeforeDash(name)) <= 3 THEN <<>>
    ELSE SubSeq(name, 1, Len(BeforeDash(name)) - 3)

\* C28: the export notebook and get_session derive the same session from
\* every file name, the text before the first "-" without its last three
\* characters, so a file has one session whichever notebook derives it.
C28_SameSessionEverywhere ==
    /\ split_session # <<>> => split_session = <<SessionText(file_name)>>
    /\ export_session # <<>> => export_session = <<SessionText(file_name)>>
    /\ (split_session # <<>> /\ export_session # <<>>) => split_session = export_session

\* Both notebooks derived the session of a name that has text after a "-".
C28_Witness ==
    /\ split_session # <<>>
    /\ export_session # <<>>
    /\ split_session[1] # <<>>
    /\ \E k \in 1..Len(file_name) : file_name[k] = "-" /\ k < Len(file_name)

====
